---- MODULE Spec2Model ----
(***************************************************************************)
(* scripts/generate_voice_samples.py: one GET for the voice list, an       *)
(* optional --force deletion of the *.mp3 files, then one generate_sample  *)
(* work item per list entry on a ThreadPoolExecutor of batch_size threads, *)
(* collected by the main thread with as_completed and tallied.             *)
(*                                                                         *)
(* The output directory persists from one run of the script to the next,   *)
(* so the model follows a run of the script over an arbitrary directory    *)
(* and the run without --force that comes after it over what it left.      *)
(***************************************************************************)
EXTENDS Integers, Sequences, FiniteSets

\* ------------------------------------------------------------------ bounds
MaxVoices == 2      \* longest voice list the service answers with
MaxBatch == 2       \* largest --batch-size tried (0 is tried as well)

\* ------------------------------------------------------------- the inputs
\* Voice identifiers the service may name; the list may repeat them.
Voices == {"af_bella", "am_adam"}

\* Response bodies of a successful POST: an empty one and one of two bytes.
Bodies == {<< >>, <<1, 2>>}

\* What a file of the directory may hold before the first run.
OldData == <<3>>

AbsentFile == [exists |-> FALSE, data |-> << >>]

FileWith(d) == [exists |-> TRUE, data |-> d]

\* output_dir / f"{voice}.mp3"
OutputPath(voice) == <<voice, ".mp3">>

Paths == {OutputPath(v) : v \in Voices}

\* The files of the directory that hold at least one byte.
NonEmpty(fs) == {p \in DOMAIN fs : fs[p].exists /\ Len(fs[p].data) > 0}

\* OUTPUT_DIR.glob("*.mp3"): the files of the directory with that suffix
GlobMp3(fs) == {p \in DOMAIN fs : fs[p].exists /\ p[2] = ".mp3"}

VoiceLists == UNION {[1..n -> Voices] : n \in 0..MaxVoices}

BatchSizes == 0..MaxBatch

Range(s) == {s[i] : i \in DOMAIN s}

\* ------------------------------------------------------------- the state
VARIABLES
    rerun,        \* FALSE in the first run, TRUE in the run after it
    force,        \* args.force
    batch_size,   \* args.batch_size
    pc,           \* where main() is
    fetch,        \* how get_voices ended
    voices,       \* the list get_voices returned
    items,        \* the submitted work items (futures), in submit order
    collected,    \* the futures as_completed has yielded so far
    results,      \* the tally dict of main()
    summary,      \* the totals printed at the end, << >> until then
    exit_code,    \* << >> while running, <<c>> once the process ended
    files,        \* the output directory
    old,          \* the files this run found in the directory with bytes in them
    prev          \* what the previous run left: its voices and outcomes

vars == <<rerun, force, batch_size, pc, fetch, voices, items, collected,
          results, summary, exit_code, files, old, prev>>

\* Before the first run there is no earlier run to remember.
NoPrev == [voices |-> {}, generated |-> FALSE, failed |-> {}]

\* results = {"ok": 0, "skipped": 0, "error": 0}
EmptyResults == [ok |-> 0, skipped |-> 0, error |-> 0]

\* A future just submitted: generate_sample has not started.
NewItem(voice) ==
    [voice |-> voice, pc |-> "pending", status |-> "none", error |-> "none",
     body |-> << >>, found |-> FALSE, posted |-> FALSE]

Init ==
    /\ rerun = FALSE
    /\ force \in BOOLEAN
    /\ batch_size \in BatchSizes
    /\ pc = "fetch"
    /\ fetch = "none"
    /\ voices = << >>
    /\ items = << >>
    /\ collected = {}
    /\ results = EmptyResults
    /\ summary = << >>
    /\ exit_code = << >>
    /\ files \in [Paths -> {AbsentFile, FileWith(<< >>), FileWith(OldData)}]
    /\ old = NonEmpty(files)
    /\ prev = NoPrev

\* ------------------------------------------------------------ main()
\* get_voices: the GET fails in transport, by status, or by its body; or it
\* returns resp.json()["voices"], a list, or a value that has no len().
FetchOutcomes == {"ok", "transport", "status", "body", "unsized"}

FetchFailures == {"transport", "status", "body"}

\* An except branch that prints the error and goes on with no voices.
FetchFailedGoesOn(outcome) ==
    /\ fetch' = outcome
    /\ pc' = "clear"
    /\ UNCHANGED <<voices, exit_code, files>>

\* except Exception: print the error and sys.exit(1)
FetchFailed(outcome) ==
    /\ fetch' = outcome
    /\ pc' = "exit"
    /\ exit_code' = <<1>>
    /\ UNCHANGED <<voices, files>>

FetchVoices ==
    /\ pc = "fetch"
    /\ \E outcome \in FetchOutcomes :
         \/ /\ outcome = "ok"
            /\ \E vs \in VoiceLists : voices' = vs
            /\ fetch' = outcome
            /\ pc' = "header"
            /\ UNCHANGED <<exit_code, files>>
         \/ /\ outcome = "unsized"
            /\ fetch' = outcome
            /\ pc' = "header"
            /\ UNCHANGED <<voices, exit_code, files>>
         \/ /\ outcome \in FetchFailures
            /\ FetchFailed(outcome)
    /\ UNCHANGED <<rerun, force, batch_size, items, collected, results,
                   summary, old, prev>>

\* print(f"Found {len(voices)} voices"): a value without len() raises
\* TypeError, which nothing catches: the interpreter exits with code 1.
PrintHeader ==
    /\ pc = "header"
    /\ IF fetch = "unsized"
         THEN pc' = "exit" /\ exit_code' = <<1>>
         ELSE pc' = "clear" /\ UNCHANGED exit_code
    /\ UNCHANGED <<rerun, force, batch_size, fetch, voices, items, collected,
                   results, summary, files, old, prev>>

\* The directory with the files of D unlinked.
Unlinked(fs, D) == [p \in DOMAIN fs |-> IF p \in D THEN AbsentFile ELSE fs[p]]

\* if args.force: for f in OUTPUT_DIR.glob("*.mp3"): f.unlink()
ClearSamples ==
    /\ pc = "clear"
    /\ files' = IF force THEN Unlinked(files, GlobMp3(files)) ELSE files
    /\ pc' = "pool"
    /\ UNCHANGED <<rerun, force, batch_size, fetch, voices, items, collected,
                   results, summary, exit_code, old, prev>>

\* One f.unlink() raises (the glob yields in no defined order, so any of the
\* other files may already be gone); nothing catches it: exit code 1.
ClearSamplesFails ==
    /\ pc = "clear"
    /\ force
    /\ \E f \in GlobMp3(files) : \E D \in SUBSET (GlobMp3(files) \ {f}) :
         files' = Unlinked(files, D)
    /\ pc' = "exit"
    /\ exit_code' = <<1>>
    /\ UNCHANGED <<rerun, force, batch_size, fetch, voices, items, collected,
                   results, summary, old, prev>>

\* ThreadPoolExecutor(max_workers=args.batch_size) raises ValueError for a
\* size below 1; results is created just before.
OpenPool ==
    /\ pc = "pool"
    /\ results' = EmptyResults
    /\ IF batch_size <= 0
         THEN pc' = "exit" /\ exit_code' = <<1>>
         ELSE pc' = "running" /\ UNCHANGED exit_code
    /\ UNCHANGED <<rerun, force, batch_size, fetch, voices, items, collected,
                   summary, files, old, prev>>

\* executor.submit(generate_sample, args.api_url, voice, OUTPUT_DIR), one
\* list entry after the other.
Submit ==
    /\ pc = "running"
    /\ Len(items) < Len(voices)
    /\ items' = Append(items, NewItem(voices[Len(items) + 1]))
    /\ UNCHANGED <<rerun, force, batch_size, pc, fetch, voices, collected,
                   results, summary, exit_code, files, old, prev>>

\* --------------------------------------------------- generate_sample
\* The work items a pool thread is running.
Busy(its) == {i \in DOMAIN its : its[i].pc \in {"post", "write"}}

\* A pool that lets one thread too many run.
CanStartOneMore(its, size) == Cardinality(Busy(its)) <= size

\* max_workers: a thread is free to take the next work item.
CanStart(its, size) == Cardinality(Busy(its)) < size

\* A skip test with the size comparison turned round.
ShouldSkipEmpty(f) == f.exists /\ Len(f.data) = 0

\* output_path.exists() and output_path.stat().st_size > 0
ShouldSkip(f) == f.exists /\ Len(f.data) > 0

\* The future is done, with a result dict or with an exception.
Finished(it, status) == [it EXCEPT !.pc = "done", !.status = status]

\* return {"voice": voice, "status": "error", "error": str(e)}
Failed(it, error) == [Finished(it, "error") EXCEPT !.error = error]

\* A generate_sample whose existence test sits inside the try: an error of
\* the test becomes the error result, with no POST issued.
StartSampleCatches(i) ==
    /\ pc \in {"running", "shutdown"}
    /\ i \in DOMAIN items
    /\ items[i].pc = "pending"
    /\ \A j \in 1..(i - 1) : items[j].pc # "pending"
    /\ CanStart(items, batch_size)
    /\ LET f == files[OutputPath(items[i].voice)]
           it == [items[i] EXCEPT !.found = (f # AbsentFile /\ f.data # << >>)] IN
         \/ items' = [items EXCEPT ![i] = Failed(items[i], "check")]
         \/ /\ ShouldSkip(f)
            /\ items' = [items EXCEPT ![i] = Finished(it, "skipped")]
         \/ /\ ~ShouldSkip(f)
            /\ items' = [items EXCEPT ![i] =
                           [it EXCEPT !.pc = "post", !.posted = TRUE]]
    /\ UNCHANGED <<rerun, force, batch_size, pc, fetch, voices, collected,
                   results, summary, exit_code, files, old, prev>>

\* A pool thread takes the oldest queued work item and runs generate_sample
\* up to its first blocking point: the existence test, which may itself
\* raise (Path.exists re-raises an OSError such as ENAMETOOLONG or EACCES,
\* and the test is outside the try), then either the skipped result or the
\* POST, which is now in flight.  found remembers what the test saw.
StartSample(i) ==
    /\ pc \in {"running", "shutdown"}
    /\ i \in DOMAIN items
    /\ items[i].pc = "pending"
    /\ \A j \in 1..(i - 1) : items[j].pc # "pending"
    /\ CanStart(items, batch_size)
    /\ LET f == files[OutputPath(items[i].voice)]
           it == [items[i] EXCEPT !.found = (f # AbsentFile /\ f.data # << >>)] IN
         \/ items' = [items EXCEPT ![i] = Finished(items[i], "raised")]
         \/ /\ ShouldSkip(f)
            /\ items' = [items EXCEPT ![i] = Finished(it, "skipped")]
         \/ /\ ~ShouldSkip(f)
            /\ items' = [items EXCEPT ![i] =
                           [it EXCEPT !.pc = "post", !.posted = TRUE]]
    /\ UNCHANGED <<rerun, force, batch_size, pc, fetch, voices, collected,
                   results, summary, exit_code, files, old, prev>>

\* A failing POST that takes the queued work items down with it.
PostFailsCancels(i) ==
    /\ i \in DOMAIN items
    /\ items[i].pc = "post"
    /\ items' = [j \in DOMAIN items |->
                   IF j = i \/ items[j].pc = "pending"
                     THEN Failed(items[j], "post") ELSE items[j]]
    /\ UNCHANGED <<rerun, force, batch_size, pc, fetch, voices, collected,
                   results, summary, exit_code, files, old, prev>>

\* A failing POST that puts the work item back in the queue for another try.
PostFailsRetries(i) ==
    /\ i \in DOMAIN items
    /\ items[i].pc = "post"
    /\ items' = [items EXCEPT ![i].pc = "pending"]
    /\ UNCHANGED <<rerun, force, batch_size, pc, fetch, voices, collected,
                   results, summary, exit_code, files, old, prev>>

\* A generate_sample that opens the output file before it sends the POST, so
\* that a failing POST leaves an empty file behind.
PostFailsTouches(i) ==
    /\ i \in DOMAIN items
    /\ items[i].pc = "post"
    /\ files' = [files EXCEPT ![OutputPath(items[i].voice)] = FileWith(<< >>)]
    /\ items' = [items EXCEPT ![i] = Failed(items[i], "post")]
    /\ UNCHANGED <<rerun, force, batch_size, pc, fetch, voices, collected,
                   results, summary, exit_code, old, prev>>

\* requests.post raises (connection error, timeout) or raise_for_status
\* raises: except Exception returns the error result.
PostFails(i) ==
    /\ i \in DOMAIN items
    /\ items[i].pc = "post"
    /\ items' = [items EXCEPT ![i] = Failed(items[i], "post")]
    /\ UNCHANGED <<rerun, force, batch_size, pc, fetch, voices, collected,
                   results, summary, exit_code, files, old, prev>>

\* The POST answers with a success status, and write_bytes opens the path
\* with mode "wb": the file is created or truncated before any byte is
\* written.  (The bytes of resp.content are drawn where they are written.)
OpenOutput(i) ==
    /\ i \in DOMAIN items
    /\ items[i].pc = "post"
    /\ files' = [files EXCEPT ![OutputPath(items[i].voice)] = FileWith(<< >>)]
    /\ items' = [items EXCEPT ![i].pc = "write"]
    /\ UNCHANGED <<rerun, force, batch_size, pc, fetch, voices, collected,
                   results, summary, exit_code, old, prev>>

\* The POST answers with a success status and the open raises (no
\* permission, no such directory): the error result, and the directory is
\* as it was.
OpenFails(i) ==
    /\ i \in DOMAIN items
    /\ items[i].pc = "post"
    /\ items' = [items EXCEPT ![i] = Failed(items[i], "write")]
    /\ UNCHANGED <<rerun, force, batch_size, pc, fetch, voices, collected,
                   results, summary, exit_code, files, old, prev>>

\* Writing d at offset 0 of a file that holds cur (the file was truncated by
\* this writer's open, and holds more only when another writer wrote since).
WriteAt0(cur, d) == d \o SubSeq(cur, Len(d) + 1, Len(cur))

\* A worker that counts its own success in the shared tally.
WriteOutputCounts(i) ==
    /\ i \in DOMAIN items
    /\ items[i].pc = "write"
    /\ \E body \in Bodies :
         LET p == OutputPath(items[i].voice) IN
           /\ files' = [files EXCEPT ![p] = FileWith(WriteAt0(files[p].data, body))]
           /\ items' = [items EXCEPT ![i] =
                          Finished([items[i] EXCEPT !.body = body], "ok")]
    /\ results' = [results EXCEPT !.ok = @ + 1]
    /\ UNCHANGED <<rerun, force, batch_size, pc, fetch, voices, collected,
                   summary, exit_code, old, prev>>

\* The whole buffer resp.content = body is written and the ok result
\* returned; the result's size_kb is kept as the body it measures.
WriteOutput(i) ==
    /\ i \in DOMAIN items
    /\ items[i].pc = "write"
    /\ \E body \in Bodies :
         LET p == OutputPath(items[i].voice) IN
           /\ files' = [files EXCEPT ![p] = FileWith(WriteAt0(files[p].data, body))]
           /\ items' = [items EXCEPT ![i] =
                          Finished([items[i] EXCEPT !.body = body], "ok")]
    /\ UNCHANGED <<rerun, force, batch_size, pc, fetch, voices, collected,
                   results, summary, exit_code, old, prev>>

\* The write (or the flush at close) raises after k bytes of resp.content
\* reached the file: the error result, and the file keeps what was written.
WriteFails(i) ==
    /\ i \in DOMAIN items
    /\ items[i].pc = "write"
    /\ \E body \in Bodies : \E k \in 0..Len(body) :
         LET p == OutputPath(items[i].voice) IN
           files' = [files EXCEPT ![p] =
                       FileWith(WriteAt0(files[p].data, SubSeq(body, 1, k)))]
    /\ items' = [items EXCEPT ![i] = Failed(items[i], "write")]
    /\ UNCHANGED <<rerun, force, batch_size, pc, fetch, voices, collected,
                   results, summary, exit_code, old, prev>>

\* ------------------------------------------------- the collecting loop
\* A tally that drops the skipped outcomes.
TallyNoSkipped(res, status) ==
    IF status = "skipped" THEN res ELSE [res EXCEPT ![status] = @ + 1]

\* results[status] += 1
Tally(res, status) == [res EXCEPT ![status] = @ + 1]

\* as_completed yields a finished future once all were submitted;
\* future.result() returns the result dict, or re-raises what
\* generate_sample raised, which leaves the with block.
Collect(i) ==
    /\ pc = "running"
    /\ Len(items) = Len(voices)
    /\ i \in DOMAIN items
    /\ i \notin collected
    /\ items[i].pc = "done"
    /\ collected' = collected \cup {i}
    /\ IF items[i].status = "raised"
         THEN pc' = "shutdown" /\ UNCHANGED results
         ELSE results' = Tally(results, items[i].status) /\ UNCHANGED pc
    /\ UNCHANGED <<rerun, force, batch_size, fetch, voices, items, summary,
                   exit_code, files, old, prev>>

\* Leaving the with block by an exception: shutdown(wait=True) joins the
\* pool threads, which first run every queued work item; then the exception
\* ends the process with code 1.
ExitAfterRaise ==
    /\ pc = "shutdown"
    /\ \A i \in DOMAIN items : items[i].pc = "done"
    /\ pc' = "exit"
    /\ exit_code' = <<1>>
    /\ UNCHANGED <<rerun, force, batch_size, fetch, voices, items, collected,
                   results, summary, files, old, prev>>

\* The loop ended: the summary is printed and main() returns.
PrintSummary ==
    /\ pc = "running"
    /\ Len(items) = Len(voices)
    /\ collected = DOMAIN items
    /\ summary' = <<[generated |-> results.ok, skipped |-> results.skipped,
                     errors |-> results.error,
                     total |-> results.ok + results.skipped + results.error]>>
    /\ pc' = "exit"
    /\ exit_code' = <<0>>
    /\ UNCHANGED <<rerun, force, batch_size, fetch, voices, items, collected,
                   results, files, old, prev>>

\* ------------------------------------------------------- the next run
\* What a run leaves for the next one to be compared with.
Remembered ==
    [voices |-> IF fetch = "ok" THEN Range(voices) ELSE {},
     generated |-> /\ summary # << >>
                   /\ \A i \in DOMAIN items : items[i].status = "ok",
     failed |-> {items[i].voice : i \in {j \in DOMAIN items : items[j].status = "error"}}]

\* The script is started again, without --force, over the directory the run
\* left.  (A --force run deletes whatever it finds, so the first run, which
\* starts from every pattern of missing, empty and filled files, already
\* covers a --force run over a directory an earlier run left.)
NextRun ==
    /\ pc = "exit"
    /\ ~rerun
    /\ rerun' = TRUE
    /\ force' = FALSE
    /\ batch_size' \in BatchSizes
    /\ pc' = "fetch"
    /\ fetch' = "none"
    /\ voices' = << >>
    /\ items' = << >>
    /\ collected' = {}
    /\ results' = EmptyResults
    /\ summary' = << >>
    /\ exit_code' = << >>
    /\ old' = NonEmpty(files)
    /\ prev' = Remembered
    /\ UNCHANGED files

Next ==
    \/ FetchVoices
    \/ PrintHeader
    \/ ClearSamples
    \/ ClearSamplesFails
    \/ OpenPool
    \/ Submit
    \/ \E i \in 1..MaxVoices : StartSample(i)
    \/ \E i \in 1..MaxVoices : PostFails(i)
    \/ \E i \in 1..MaxVoices : OpenOutput(i)
    \/ \E i \in 1..MaxVoices : OpenFails(i)
    \/ \E i \in 1..MaxVoices : WriteOutput(i)
    \/ \E i \in 1..MaxVoices : WriteFails(i)
    \/ \E i \in 1..MaxVoices : Collect(i)
    \/ ExitAfterRaise
    \/ PrintSummary
    \/ NextRun

Spec == Init /\ [][Next]_vars

\* ================================================================ claims
\* The synthesis requests in flight: POST issued, outcome not yet received.
InFlight == {i \in DOMAIN items : items[i].pc = "post"}

\* The work items that have an outcome with the given status.
WithStatus(status) == {i \in DOMAIN items : items[i].status = status}

\* The voice listing did not give a usable list.
ListingFailed == fetch \in FetchFailures \cup {"unsized"}

\* C1: in every reachable state the number of work items whose POST is in
\* flight is at most batch_size, whatever the voice list and the batch size.
C1_InFlightBounded == Cardinality(InFlight) <= batch_size

\* C1 witness: the bound bites: batch_size requests are in flight while
\* another work item waits in the queue.
C1_Witness ==
    /\ batch_size >= 1
    /\ Cardinality(InFlight) = batch_size
    /\ \E i \in DOMAIN items : items[i].pc = "pending"

\* C2: when the summary is printed, generated + skipped + failed is the
\* length of the voice list, the printed total is that length too, and each
\* list entry has been counted once, under the outcome its work item had.
C2_TallyIsVoices ==
    summary # << >> =>
        /\ summary[1].generated + summary[1].skipped + summary[1].errors = Len(voices)
        /\ summary[1].total = Len(voices)
        /\ collected = 1..Len(voices)
        /\ \A i \in DOMAIN items : items[i].status \in {"ok", "skipped", "error"}
        /\ summary[1].generated = Cardinality(WithStatus("ok"))
        /\ summary[1].skipped = Cardinality(WithStatus("skipped"))
        /\ summary[1].errors = Cardinality(WithStatus("error"))

\* C2 witness: a summary over two voices, one skipped and one failed.
C2_Witness ==
    /\ summary # << >>
    /\ Len(voices) = 2
    /\ summary[1].skipped = 1
    /\ summary[1].errors = 1

\* The re-run C3 speaks of: no --force, the same voice set, after a run that
\* printed its summary with every outcome generated.
RerunOfGenerated ==
    /\ rerun
    /\ ~force
    /\ fetch = "ok"
    /\ prev.generated
    /\ prev.voices = Range(voices)

\* C3: in a re-run without --force over the same voice set, after a run in
\* which every outcome was generated, no step changes a file, no work item
\* issues a POST, and every outcome is skipped.  (Stated for the work items
\* whose existence test did not raise.)
C3_RerunIsNoOp ==
    [][RerunOfGenerated' =>
         /\ files' = files
         /\ \A i \in DOMAIN items' :
              /\ ~items'[i].posted
              /\ items'[i].status \in {"none", "skipped", "raised"}]_vars

\* C4: with --force every work item that returned a result issued a POST and
\* ended generated or failed, never skipped.  (The claim's first half, the
\* deletion before the first POST, is ClearSamples; this is its second half,
\* stated for the work items whose existence test did not raise.)
C4_ForceNeverSkips ==
    force =>
        \A i \in DOMAIN items :
            (items[i].pc = "done" /\ items[i].status # "raised") =>
                (items[i].posted /\ items[i].status \in {"ok", "error"})

\* C5: once the voice listing has failed, the process is over with exit code
\* 1 (for a value without len(), after the header line at the latest), no
\* work item exists, no file was touched (also with --force), and nothing was
\* tallied or summarised; the only thing that follows is a new run.
C5_ListingFailureStopsAll ==
    [][/\ ListingFailed' =>
            /\ files' = files
            /\ items' = << >>
            /\ collected' = {}
            /\ results' = EmptyResults
            /\ summary' = << >>
            /\ pc' \in IF fetch' = "unsized" THEN {"header", "exit"} ELSE {"exit"}
            /\ pc' = "exit" => exit_code' = <<1>>
       /\ ListingFailed => (pc = "header" \/ (pc = "exit" /\ pc' = "fetch"))]_vars

\* C5 witness: the listing failed in a --force run over a directory that
\* holds samples, and the process has ended.
C5_Witness ==
    /\ fetch \in FetchFailures
    /\ force
    /\ GlobMp3(files) # {}
    /\ pc = "exit"

\* C6: the exit code is 1 when the listing failed, and 0 for every run that
\* fetched the list and handed its work items to the pool, whatever happened
\* to them.  (The claim says 0 for every other run; the runs that end before
\* the pool is open, on a deletion error or a batch size below 1, end with 1
\* as well.)
C6_ExitCode ==
    pc = "exit" =>
        /\ ListingFailed => exit_code = <<1>>
        /\ (fetch = "ok" /\ items # << >>) => exit_code = <<0>>

\* A step in which work item i fails: its POST, the open or the write raised.
Fails(i) ==
    /\ i \in DOMAIN items
    /\ i \in DOMAIN items'
    /\ items[i].status # "error"
    /\ items'[i].status = "error"

\* C7: a step in which one work item fails changes no other work item, does
\* not stop main(), and tallies nothing; and a process that dispatched work
\* ends only when every list entry has been submitted and has run to its end.
C7_FailureIsolated ==
    [][/\ \A i \in 1..MaxVoices :
            Fails(i) =>
                /\ DOMAIN items' = DOMAIN items
                /\ \A j \in DOMAIN items \ {i} : items'[j] = items[j]
                /\ items'[i].voice = items[i].voice
                /\ UNCHANGED <<pc, exit_code, collected, results, summary, voices>>
       /\ (pc' = "exit" /\ items' # << >>) =>
            /\ Len(items') = Len(voices')
            /\ \A j \in DOMAIN items' : items'[j].pc = "done"]_vars

\* C7 witness: the summary of a run in which the first voice failed and the
\* second one was generated.
C7_Witness ==
    /\ summary # << >>
    /\ Len(items) = 2
    /\ items[1].status = "error"
    /\ items[2].status = "ok"
    /\ items[2].body # << >>

\* C8: a work item whose existence test returned is skipped exactly when the
\* file was there with bytes in it and --force was not given; a skipped item
\* issued no POST, and an item that found the file missing or empty issued one.
C8_SkipRule ==
    \A i \in DOMAIN items :
        (items[i].pc # "pending" /\ items[i].status # "raised") =>
            /\ (items[i].status = "skipped") <=> (items[i].found /\ ~force)
            /\ items[i].status = "skipped" => ~items[i].posted
            /\ ~items[i].found => items[i].posted

\* C9: in a re-run without --force, a work item for a voice that failed in the
\* run before is not skipped: it issues a POST.  (Stated for the work items
\* whose existence test did not raise.)
C9_FailedIsRetried ==
    (rerun /\ ~force) =>
        \A i \in DOMAIN items :
            (/\ items[i].pc = "done"
             /\ items[i].status # "raised"
             /\ items[i].voice \in prev.failed) =>
                (items[i].status # "skipped" /\ items[i].posted)

\* C10: no two work items of a run have the same output path open for
\* writing at the same time.  (The claim says more: that no two work items
\* of a run have the same output path at all.)
C10_NoSharedOutput ==
    \A i \in DOMAIN items : \A j \in DOMAIN items :
        (/\ i # j
         /\ items[i].pc = "write"
         /\ items[j].pc = "write") =>
            OutputPath(items[i].voice) # OutputPath(items[j].voice)

\* C11: a work item issues a POST only from the queue and only if it has not
\* issued one before, and a work item that has its outcome is never changed
\* again for as long as the process lives.
C11_NoRetry ==
    [][\A i \in DOMAIN items :
         i \in DOMAIN items' =>
            /\ (items[i].pc # "post" /\ items'[i].pc = "post") =>
                   (items[i].pc = "pending" /\ ~items[i].posted)
            /\ items[i].posted => items'[i].posted
            /\ items[i].pc = "done" => items'[i] = items[i]]_vars

\* C11 witness: the first work item has failed and stays failed while the
\* second one has its POST in flight.
C11_Witness ==
    /\ Len(items) = 2
    /\ items[1].pc = "done"
    /\ items[1].status = "error"
    /\ items[1].error = "post"
    /\ items[2].pc = "post"

\* C12: a process that fetched the voice list and handed work to the pool
\* ends only after it has collected every outcome and printed the summary.
\* (The claim says more: that every run that fetched a list gets there.)
C12_RunCompletes ==
    (pc = "exit" /\ fetch = "ok" /\ items # << >>) =>
        /\ summary # << >>
        /\ collected = DOMAIN items
        /\ \A i \in DOMAIN items : items[i].status \in {"ok", "skipped", "error"}

\* The tally holds, for each status, the collected work items that have it.
TallyMatchesCollected ==
    \A s \in {"ok", "skipped", "error"} :
        results[s] = Cardinality({i \in collected : items[i].status = s})

\* C13: within a process, a step changes the tally only by collecting one
\* finished work item and adding one to the counter of its status, no step of
\* a worker (a step that changes a work item) changes the tally, and the tally
\* always holds exactly the collected outcomes.
C13_SingleCollector ==
    [][pc' # "fetch" =>
         /\ TallyMatchesCollected'
         /\ results' # results =>
              /\ items' = items
              /\ \E i \in DOMAIN items :
                   /\ i \notin collected
                   /\ collected' = collected \cup {i}
                   /\ items[i].pc = "done"
                   /\ results' = [results EXCEPT ![items[i].status] = @ + 1]
         /\ items' # items => results' = results]_vars

\* C13 witness: two work items have finished, one is tallied and the other
\* still waits for the collecting loop.
C13_Witness ==
    /\ Len(items) = 2
    /\ \A i \in DOMAIN items : items[i].pc = "done" /\ items[i].status = "ok"
    /\ Cardinality(collected) = 1
    /\ results.ok = 1

\* C14: when the summary is printed, the file of every generated voice holds
\* the bytes of a response that was received and reported generated for that
\* voice.  (The claim says so for the moment of each write as well.)
C14_FileHoldsResponse ==
    summary # << >> =>
        \A i \in WithStatus("ok") :
            \E j \in WithStatus("ok") :
                /\ items[j].voice = items[i].voice
                /\ files[OutputPath(items[i].voice)] = FileWith(items[j].body)

\* C15: in a run without --force no step changes a file that the run found
\* in the directory with bytes in it, whatever the voice list.
C15_OldFilesKept ==
    [][~force => \A p \in old : files'[p] = files[p]]_vars

\* C15 witness: a finished run without --force over a directory that held a
\* sample of a voice the list names twice and a sample of a voice the list
\* does not name.
C15_Witness ==
    /\ ~force
    /\ summary # << >>
    /\ old = Paths
    /\ Len(voices) = 2
    /\ voices[1] = voices[2]

\* The work items that issued a POST.
Posted == {i \in DOMAIN items : items[i].posted}

\* C16: when the summary is printed, the number of work items that issued a
\* POST is generated + failed: no skipped work item issued one and every
\* generated or failed work item did.
C16_PostsAreGeneratedPlusFailed ==
    summary # << >> =>
        /\ Cardinality(Posted) = summary[1].generated + summary[1].errors
        /\ \A i \in DOMAIN items :
             /\ items[i].status = "skipped" => ~items[i].posted
             /\ items[i].status \in {"ok", "error"} => items[i].posted

\* C16 witness: a summary with one generated and one skipped voice.
C16_Witness ==
    /\ summary # << >>
    /\ summary[1].generated = 1
    /\ summary[1].skipped = 1
    /\ Cardinality(Posted) = 1

\* C17: a work item whose POST fails in transport or by its status changes
\* no file: neither the step that issues the POST nor the step in which it
\* fails touches the directory.
C17_PostFailureLeavesFiles ==
    [][\A i \in DOMAIN items :
         (/\ i \in DOMAIN items'
          /\ items'[i] # items[i]
          /\ \/ items'[i].pc = "post"
             \/ items'[i].error = "post") => files' = files]_vars

\* C17 witness: a work item's POST has failed and its voice has no file.
C17_Witness ==
    \E i \in DOMAIN items :
        /\ items[i].error = "post"
        /\ files[OutputPath(items[i].voice)] = AbsentFile

====
